---- MODULE Spec2Model ----
(***************************************************************************)
(* A model of go-changed-pkgs (cmd/main.go): runApp, printChangedPackages, *)
(* getChangedPackages and the helpers they call.                            *)
(*                                                                          *)
(* Paths are sequences of path components, so that filepath.Base and       *)
(* filepath.Join are computed and not assumed.  The output of git is a     *)
(* sequence of tokens: a path, or the NUL separator of `diff -z`.          *)
(***************************************************************************)
EXTENDS Integers, Sequences, FiniteSets, TLC

VARIABLES
    pc,              \* position of the run inside runApp
    signalled,       \* an interrupt was received on the run's context
    refsValid,       \* the revisions given on the command line name commits
    pkgs,            \* getChangedPackages: pkgs (the loaded package list)
    changedFiles,    \* getChangedPackages: changedFiles
    modState,        \* repository: changed go.mod path -> where the file exists
    idx,             \* collectChanges: position in changedFiles
    oldModFile,      \* readModFiles: oldModFile, between the two reads
    newModFile,      \* readModFiles: newModFile
    changedPackages, \* collectChanges / getChangedPackages: changedPackages
    changedMods,     \* collectChanges: changedMods
    pidx,            \* getChangedPackages: position in pkgs of the last loop
    result,          \* what getChangedPackages returned (NoSet before, and on error)
    runErr,          \* the error app.RunContext returned
    out,             \* lines written to the output writer
    exitCode,        \* runApp's first result
    exitErr,         \* runApp's second result
    calls,           \* history: the external calls made, with their outcome
    attributed,      \* history: the packages Phase 1 attributed a file to
    modLog,          \* history: what getChangedMods returned for each go.mod
    v,               \* the SlogLevelValue of the log-level flag
    flagLog          \* history: the calls made on the SlogLevelValue

vars == <<pc, signalled, refsValid, pkgs, changedFiles, modState, idx, oldModFile,
          newModFile, changedPackages, changedMods, pidx, result, runErr, out,
          exitCode, exitErr, calls, attributed, modLog, v, flagLog>>

-----------------------------------------------------------------------------
(* Bounds of the model *)

NumPkgs == 3
MaxImports == 2
MaxChanged == 2
MaxReq == 1
MaxModReq == 2
MaxCalls == 3

(* Program constants *)

_exitSuccess == 0
_exitFailure == 1
_signalExitBase == 128
_sigIntVal == 2

-----------------------------------------------------------------------------
(* Values *)

Nil == "nil"
\* getChangedPackages returned no set (yet): no package is called nil
NoSet == {Nil}
NoErr == <<>>
NUL == "\\x00"

fromRef == "from-ref"
toRef == "to-ref"
repoDir == <<"repo">>

PkgNames == <<"p1", "p2", "p3", "p4", "p5">>
LocalPkgs == {PkgNames[i] : i \in 1..NumPkgs}

\* third-party packages, the module that owns each and what each imports;
\* local packages import x1, and x2 comes with it
ExtPkgs == {"x1", "x2"}
\* a package of the standard library, which no module owns: every local
\* package imports it
StdPkgs == {"fmt"}
DirectExt == {"x1"}
Modules == {"m1", "m2"}
Versions == {"v1", "v2"}
MainModule == "example.com/test-repo"
ExtModule == [p \in ExtPkgs |-> IF p = "x1" THEN "m1" ELSE "m2"]
ExtImports == [p \in ExtPkgs |-> IF p = "x1" THEN {"x2"} ELSE {}]

\* relative paths of the repository, in the order git lists them
dataFile == <<"data.txt">>
GoModPaths == {<<"go.mod">>, <<"sub", "go.mod">>}
goFile(i) == <<PkgNames[i], "main.go">>
AllPaths == <<dataFile, <<"go.mod">>>> \o [i \in 1..NumPkgs |-> goFile(i)]
              \o << <<"sub", "go.mod">> >>

Range(s) == {s[i] : i \in DOMAIN s}

-----------------------------------------------------------------------------
(* path/filepath *)

Base(path) == IF path = <<>> THEN "." ELSE path[Len(path)]
Join(dir, path) == dir \o path

(* strings *)

TrimSuffix(s, suffix) ==
    IF Len(s) > 0 /\ s[Len(s)] = suffix THEN SubSeq(s, 1, Len(s) - 1) ELSE s

\* the text between two separators: the tokens there, joined
RECURSIVE Concat(_)
Concat(toks) == IF toks = <<>> THEN <<>> ELSE Head(toks) \o Concat(Tail(toks))

RECURSIVE SplitFrom(_, _, _)
SplitFrom(s, sep, cur) ==
    IF s = <<>> THEN <<Concat(cur)>>
    ELSE IF Head(s) = sep THEN <<Concat(cur)>> \o SplitFrom(Tail(s), sep, <<>>)
    ELSE SplitFrom(Tail(s), sep, Append(cur, Head(s)))

Split(s, sep) == SplitFrom(s, sep, <<>>)

-----------------------------------------------------------------------------
(* The packages the loader can return: p_i imports only packages listed     *)
(* before it (`go list -deps` order) and third-party packages.              *)

ImportChoices(i) ==
    {s \cup StdPkgs : s \in
        {t \in SUBSET ({PkgNames[j] : j \in 1..(i - 1)} \cup DirectExt) :
            Cardinality(t) <= MaxImports}}

ImportedPkg(p) ==
    IF p \in ExtPkgs THEN [PkgPath |-> p, Module |-> ExtModule[p]]
    ELSE IF p \in StdPkgs THEN [PkgPath |-> p, Module |-> Nil]
    ELSE [PkgPath |-> p, Module |-> MainModule]

Package(i, imports, embeds, errs) ==
    [PkgPath    |-> PkgNames[i],
     GoFiles    |-> {Join(repoDir, goFile(i))},
     OtherFiles |-> {},
     EmbedFiles |-> IF embeds THEN {Join(repoDir, dataFile)} ELSE {},
     Imports    |-> [p \in imports |-> ImportedPkg(p)],
     Errors     |-> IF errs THEN {"syntax error"} ELSE {}]

\* the imports of the first n packages
RECURSIVE ImportLists(_)
ImportLists(n) ==
    IF n = 0 THEN {<<>>}
    ELSE {Append(imp, s) : imp \in ImportLists(n - 1), s \in ImportChoices(n)}

PackageLists ==
    {[i \in 1..NumPkgs |-> Package(i, imp[i], i \in emb, FALSE)] :
        imp \in ImportLists(NumPkgs), emb \in SUBSET (1..NumPkgs)}

\* the requirements of a go.mod: each module at most once
RequireLists(mods, max) ==
    UNION {{r \in [1..n -> [Path : mods, Version : Versions]] :
               \A i, j \in 1..n : i # j => r[i].Path # r[j].Path} : n \in 0..max}

Requires == RequireLists(Modules, MaxReq)

-----------------------------------------------------------------------------
(* fileInPkg *)
fileInPkg(pkg, dir, path) ==
    LET absPath == Join(dir, path)
    IN  \/ absPath \in pkg.GoFiles
        \/ absPath \in pkg.OtherFiles
        \/ absPath \in pkg.EmbedFiles

(* collectChanges, lines 253-266: the packages a changed path adds *)
RECURSIVE firstOwner(_, _, _)
firstOwner(list, i, path) ==
    IF i > Len(list) THEN {}
    ELSE IF fileInPkg(list[i], repoDir, path) THEN {list[i].PkgPath}
    ELSE firstOwner(list, i + 1, path)

\* as attribute, but a path no package lists falls to the first package
attributeOrFirst(list, path) ==
    IF firstOwner(list, 1, path) = {} /\ Len(list) > 0
    THEN {list[1].PkgPath}
    ELSE firstOwner(list, 1, path)

\* as attribute, without the break of line 264
attributeAll(list, path) ==
    {list[i].PkgPath : i \in {k \in DOMAIN list : fileInPkg(list[k], repoDir, path)}}

attribute(list, path) == firstOwner(list, 1, path)

(* readModFiles hands back (newModFile, oldModFile) *)
readModFiles(old, new) == <<new, old>>

(* getChangedMods, lines 284-301 *)
oldModMap(oldReq) ==
    [p \in {oldReq[i].Path : i \in DOMAIN oldReq} |->
        LET last == CHOOSE i \in DOMAIN oldReq :
                        /\ oldReq[i].Path = p
                        /\ \A j \in DOMAIN oldReq : oldReq[j].Path = p => j <= i
        IN  oldReq[last]]

\* as getChangedMods, without the `ok` test of line 294
getChangedModsNoOk(files) ==
    LET curReq == files[1]
        old == oldModMap(files[2])
    IN  {curReq[i].Path : i \in {k \in DOMAIN curReq :
            \/ curReq[k].Path \notin DOMAIN old
            \/ curReq[k].Version # old[curReq[k].Path].Version}}

getChangedMods(files) ==
    LET curReq == files[1]
        old == oldModMap(files[2])
    IN  {curReq[i].Path : i \in {k \in DOMAIN curReq :
            /\ curReq[k].Path \in DOMAIN old
            /\ curReq[k].Version # old[curReq[k].Path].Version}}

\* the orders in which the keys of a map can come: those of `range` over a map,
\* and of maps.Keys
Orders(S) == {s \in [1..Cardinality(S) -> S] : Range(s) = S}

\* as isChangedFromImportsIn, without the module test of lines 373-385
isChangedFromImportsInNoMods(order, imports, mods, changed) ==
    \E k \in DOMAIN order : order[k] \in changed

\* as isChangedFromImportsIn, with the `return false` of line 387 inside the loop
isChangedFromImportsInFirstOnly(order, imports, mods, changed) ==
    /\ order # <<>>
    /\ \/ Head(order) \in changed
       \/ /\ imports[Head(order)].Module # Nil
          /\ imports[Head(order)].Module \in mods

(* isChangedFromImports, when `range imports` hands the keys in this order *)
RECURSIVE isChangedFromImportsIn(_, _, _, _)
isChangedFromImportsIn(order, imports, mods, changed) ==
    IF order = <<>> THEN FALSE
    ELSE LET importPath == Head(order)
             mod == imports[importPath].Module
         IN  IF importPath \in changed THEN TRUE
             ELSE IF mod # Nil /\ mod \in mods THEN TRUE
             ELSE isChangedFromImportsIn(Tail(order), imports, mods, changed)

(* isChangedFromImports, as a predicate on the map: some import matches *)
isChangedFromImports(imports, mods, changed) ==
    \E importPath \in DOMAIN imports :
        \/ importPath \in changed
        \/ /\ imports[importPath].Module # Nil
           /\ imports[importPath].Module \in mods

\* as propagateStepIn, without the test of line 177
propagateStepInAlways(order, pkg, mods, changed) == changed \cup {pkg.PkgPath}

(* getChangedPackages, lines 173-180: one iteration, the imports in an order *)
propagateStepIn(order, pkg, mods, changed) ==
    IF pkg.PkgPath \in changed THEN changed
    ELSE IF isChangedFromImportsIn(order, pkg.Imports, mods, changed)
    THEN changed \cup {pkg.PkgPath}
    ELSE changed

(* getChangedPackages, lines 173-182: the loop from position i on, when the *)
(* imports of the package at position k come in the order orders[k]        *)
RECURSIVE propagateFromIn(_, _, _, _, _)
propagateFromIn(orders, list, i, mods, changed) ==
    IF i > Len(list) THEN changed
    ELSE propagateFromIn(orders, list, i + 1, mods,
                         propagateStepIn(orders[i], list[i], mods, changed))

(* getChangedPackages, lines 173-180: one iteration of the loop *)
propagateStep(pkg, mods, changed) ==
    IF pkg.PkgPath \in changed THEN changed
    ELSE IF isChangedFromImports(pkg.Imports, mods, changed)
    THEN changed \cup {pkg.PkgPath}
    ELSE changed

(* getChangedPackages, lines 173-182: the loop from position i on *)
RECURSIVE propagateFrom(_, _, _, _)
propagateFrom(list, i, mods, changed) ==
    IF i > Len(list) THEN changed
    ELSE propagateFrom(list, i + 1, mods, propagateStep(list[i], mods, changed))

(* collectChanges over a list of changed files, when getChangedMods answers  *)
(* deltaOf[path] for each go.mod of the list: <<changedPackages, changedMods>> *)
RECURSIVE collectChanges(_, _, _, _, _)
collectChanges(files, list, deltaOf, changed, mods) ==
    IF files = <<>> THEN <<changed, mods>>
    ELSE LET path == Head(files)
         IN  collectChanges(Tail(files), list, deltaOf,
                            changed \cup attribute(list, path),
                            IF Base(path) = "go.mod" THEN deltaOf[path] ELSE mods)

(* getChangedPackages, lines 159-182 *)
getChangedPackages(files, list, deltaOf) ==
    LET c == collectChanges(files, list, deltaOf, {}, {})
    IN  propagateFrom(list, 1, c[2], c[1])


\* as getAppStatus, without the signal test of lines 417-421
getAppStatusNoSignal(sig, err) == <<_exitFailure, err>>

(* getAppStatus *)
getAppStatus(sig, err) ==
    IF sig
    THEN <<_signalExitBase + _sigIntVal, <<"interrupted (^C)">>>>
    ELSE <<_exitFailure, err>>

-----------------------------------------------------------------------------
(* internal/flag: SlogLevelValue.  A string is the sequence of its characters *)

LevelDebug == 0 - 4
LevelInfo == 0
LevelWarn == 4
LevelError == 8

levelNames ==
    << <<"d", "e", "b", "u", "g">>, <<"i", "n", "f", "o">>,
       <<"w", "a", "r", "n">>, <<"e", "r", "r", "o", "r">> >>

LowerLetters ==
    <<"a", "b", "c", "d", "e", "f", "g", "h", "i", "j", "k", "l", "m",
      "n", "o", "p", "q", "r", "s", "t", "u", "v", "w", "x", "y", "z">>
UpperLetters ==
    <<"A", "B", "C", "D", "E", "F", "G", "H", "I", "J", "K", "L", "M",
      "N", "O", "P", "Q", "R", "S", "T", "U", "V", "W", "X", "Y", "Z">>

(* strings.ToUpper *)
ToUpper(s) ==
    [k \in DOMAIN s |->
        IF \E n \in DOMAIN LowerLetters : LowerLetters[n] = s[k]
        THEN UpperLetters[CHOOSE n \in DOMAIN LowerLetters : LowerLetters[n] = s[k]]
        ELSE s[k]]

(* slices.Contains *)
Contains(list, e) == \E k \in DOMAIN list : list[k] = e

(* strings.Join: the elements with the separator between them *)
RECURSIVE StringsJoin(_, _)
StringsJoin(elems, sep) ==
    IF elems = <<>> THEN <<>>
    ELSE IF Len(elems) = 1 THEN Head(elems)
    ELSE Head(elems) \o sep \o StringsJoin(Tail(elems), sep)

(* slog.Level.UnmarshalText on a text without sign: <<level, error>>; the   *)
(* level is the zero value of new(slog.Level) when the name is unknown      *)
UnmarshalText(text) ==
    LET name == ToUpper(text)
    IN  IF name = <<"D", "E", "B", "U", "G">> THEN <<LevelDebug, NoErr>>
        ELSE IF name = <<"I", "N", "F", "O">> THEN <<LevelInfo, NoErr>>
        ELSE IF name = <<"W", "A", "R", "N">> THEN <<LevelWarn, NoErr>>
        ELSE IF name = <<"E", "R", "R", "O", "R">> THEN <<LevelError, NoErr>>
        ELSE <<0, <<"slog: level string: unknown name">>>>

(* the SlogLevelValue a GenericFlag is built with *)
SlogLevelValue(level) == [Level |-> level]
NewSlogLevelValueFlag == SlogLevelValue(LevelWarn)

\* as Set, without the test of line 68
SetUnchecked(val, value) ==
    <<SlogLevelValue(UnmarshalText(value)[1]), NoErr>>

(* SlogLevelValue.Set: <<the value afterwards, the error returned>> *)
Set(val, value) ==
    IF Contains(levelNames, value)
    THEN <<SlogLevelValue(UnmarshalText(value)[1]), NoErr>>
    ELSE <<val, <<"invalid level ">> \o value \o <<": must be one of: ">>
                    \o StringsJoin(levelNames, <<",", " ">>)>>

(* SlogLevelValue.Get *)
Get(val) == val.Level

Entry(op, value, val, ret) == [op |-> op, value |-> value, val |-> val, ret |-> ret]

-----------------------------------------------------------------------------
(* The run of the program *)

Call(op, path, ref, ok) == [op |-> op, path |-> path, ref |-> ref, ok |-> ok]

Init ==
    /\ pc = "parse"
    /\ signalled = FALSE
    /\ refsValid \in BOOLEAN
    /\ pkgs = <<>>
    /\ changedFiles = <<>>
    /\ modState = <<>>
    /\ idx = 0
    /\ oldModFile = Nil
    /\ newModFile = Nil
    /\ changedPackages = {}
    /\ changedMods = {}
    /\ pidx = 0
    /\ result = NoSet
    /\ runErr = NoErr
    /\ out = <<>>
    /\ exitCode = Nil
    /\ exitErr = NoErr
    /\ calls = <<>>
    /\ attributed = {}
    /\ modLog = <<>>
    /\ v = NewSlogLevelValueFlag
    /\ flagLog = <<Entry("NewSlogLevelValueFlag", <<>>, NewSlogLevelValueFlag, NoErr)>>

\* as Fail, but what was collected so far is returned and printed
FailPartial(err) ==
    /\ pc' = "print"
    /\ result' = changedPackages
    /\ UNCHANGED <<runErr, pkgs, changedFiles, changedPackages, changedMods,
                   oldModFile, idx, pidx, attributed, modLog>>

(* getChangedPackages returns (nil, err) at lines 143, 155 and 168, and     *)
(* printChangedPackages wraps the error at line 119                         *)
Fail(err) ==
    /\ pc' = "status"
    /\ runErr' = <<"getting changed packages">> \o err
    /\ result' = NoSet
    /\ pkgs' = <<>>
    /\ changedFiles' = <<>>
    /\ changedPackages' = {}
    /\ changedMods' = {}
    /\ oldModFile' = Nil
    /\ idx' = 0
    /\ pidx' = 0
    /\ UNCHANGED <<attributed, modLog>>

(* an interrupt arrives: signalctx cancels the context and keeps the signal *)
Interrupt ==
    /\ pc # "done"
    /\ ~signalled
    /\ signalled' = TRUE
    /\ UNCHANGED <<pc, refsValid, pkgs, changedFiles, modState, idx, oldModFile,
                   newModFile, changedPackages, changedMods, pidx, result, runErr,
                   out, exitCode, exitErr, calls, attributed, modLog>>
    /\ UNCHANGED <<v, flagLog>>

(* app.RunContext: the flags are parsed before the Action runs *)
ParseArgs ==
    /\ pc = "parse"
    /\ \/ /\ pc' = "load"
          /\ UNCHANGED runErr
       \/ /\ pc' = "status"
          /\ runErr' = <<"flag provided but not defined">>
    /\ UNCHANGED <<signalled, refsValid, pkgs, changedFiles, modState, idx,
                   oldModFile, newModFile, changedPackages, changedMods, pidx,
                   result, out, exitCode, exitErr, calls, attributed, modLog>>
    /\ UNCHANGED <<v, flagLog>>

\* as LoadLocalPackages, without the check of lines 208-212
LoadLocalPackagesUnchecked ==
    /\ pc = "load"
    /\ \/ /\ calls' = Append(calls, Call("load", <<>>, "", FALSE))
          /\ Fail(<<"failed listing local packages">>)
       \/ /\ ~signalled
          /\ calls' \in {Append(calls, Call("load", <<>>, "errors", FALSE)),
                         Append(calls, Call("load", <<>>, "", TRUE))}
          /\ pkgs' \in PackageLists
          /\ pc' = "diff"
          /\ UNCHANGED <<changedFiles, idx, oldModFile, changedPackages,
                         changedMods, pidx, result, runErr, attributed, modLog>>
    /\ UNCHANGED <<signalled, refsValid, modState, newModFile, out, exitCode,
                   exitErr>>
    /\ UNCHANGED <<v, flagLog>>

(* loadLocalPackages *)
LoadLocalPackages ==
    /\ pc = "load"
    /\ \/ \* packages.Load fails (always so when the context is cancelled)
          /\ calls' = Append(calls, Call("load", <<>>, "", FALSE))
          /\ Fail(<<"failed listing local packages">>)
       \/ \* a loaded package carries errors: the first such one is reported
          /\ ~signalled
          /\ calls' = Append(calls, Call("load", <<>>, "errors", FALSE))
          /\ \E bad \in (SUBSET (1..NumPkgs)) \ {{}} :
                LET first == CHOOSE i \in bad : \A j \in bad : i <= j
                IN  Fail(<<"failed querying package", PkgNames[first]>>)
       \/ /\ ~signalled
          /\ calls' = Append(calls, Call("load", <<>>, "", TRUE))
          /\ pkgs' \in PackageLists
          /\ pc' = "diff"
          /\ UNCHANGED <<changedFiles, idx, oldModFile, changedPackages,
                         changedMods, pidx, result, runErr, attributed, modLog>>
    /\ UNCHANGED <<signalled, refsValid, modState, newModFile, out, exitCode,
                   exitErr>>
    /\ UNCHANGED <<v, flagLog>>

\* what `git diff --name-only -z` writes for a set of changed paths
RECURSIVE gitDiffOut(_, _)
gitDiffOut(paths, S) ==
    IF paths = <<>> THEN <<>>
    ELSE (IF Head(paths) \in S THEN <<Head(paths), NUL>> ELSE <<>>)
            \o gitDiffOut(Tail(paths), S)

\* where the run goes after an iteration of the loop of collectChanges
AfterCollect(files, i) == IF i > Len(files) THEN "propagate" ELSE "collect"

(* getChangedFiles *)
GetChangedFiles ==
    /\ pc = "diff"
    /\ \/ \* git fails (always so on invalid revisions or a cancelled context)
          /\ calls' = Append(calls, Call("diff", <<>>, "", FALSE))
          /\ Fail(<<"listing changed files">>)
          /\ UNCHANGED modState
       \/ /\ ~signalled
          /\ refsValid
          /\ calls' = Append(calls, Call("diff", <<>>, "", TRUE))
          /\ \E S \in {T \in SUBSET Range(AllPaths) : Cardinality(T) <= MaxChanged} :
                /\ changedFiles' = Split(TrimSuffix(gitDiffOut(AllPaths, S), NUL), NUL)
                /\ modState' \in [S \cap GoModPaths -> {"both", "from", "to"}]
          /\ idx' = 1
          /\ pc' = "collect"
          /\ UNCHANGED <<pkgs, oldModFile, changedPackages, changedMods, pidx,
                         result, runErr, attributed, modLog>>
    /\ UNCHANGED <<signalled, refsValid, newModFile, out, exitCode, exitErr>>
    /\ UNCHANGED <<v, flagLog>>

\* `git show ref:path` succeeds when the file exists at the revision
ExistsAt(path, ref) ==
    /\ path \in DOMAIN modState
    /\ modState[path] \in {"both", IF ref = fromRef THEN "from" ELSE "to"}

(* collectChanges, lines 244-267: one iteration for a path that is no go.mod *)
CollectFile ==
    /\ pc = "collect"
    /\ idx <= Len(changedFiles)
    /\ Base(changedFiles[idx]) # "go.mod"
    /\ changedPackages' = changedPackages \cup attribute(pkgs, changedFiles[idx])
    /\ attributed' = attributed \cup attribute(pkgs, changedFiles[idx])
    /\ idx' = idx + 1
    /\ pc' = AfterCollect(changedFiles, idx + 1)
    /\ pidx' = 1
    /\ UNCHANGED <<signalled, refsValid, pkgs, changedFiles, modState, oldModFile,
                   newModFile, changedMods, result, runErr, out, exitCode, exitErr,
                   calls, modLog>>
    /\ UNCHANGED <<v, flagLog>>

\* as ReadOldMod, without the return of lines 312-314: a go.mod that cannot be
\* read or parsed at fromRef counts as an empty one
ReadOldModIgnoringErr ==
    /\ pc = "collect"
    /\ idx <= Len(changedFiles)
    /\ Base(changedFiles[idx]) = "go.mod"
    /\ LET path == changedFiles[idx]
       IN  \/ /\ signalled \/ ~ExistsAt(path, fromRef)
              /\ calls' = Append(calls, Call("show", path, fromRef, FALSE))
              /\ oldModFile' = <<>>
           \/ /\ ~signalled
              /\ ExistsAt(path, fromRef)
              /\ \/ /\ calls' = calls \o <<Call("show", path, fromRef, TRUE),
                                           Call("parse", path, fromRef, FALSE)>>
                    /\ oldModFile' = <<>>
                 \/ /\ calls' = calls \o <<Call("show", path, fromRef, TRUE),
                                           Call("parse", path, fromRef, TRUE)>>
                    /\ oldModFile' \in Requires
    /\ pc' = "readNew"
    /\ UNCHANGED <<pkgs, changedFiles, idx, changedPackages, changedMods, pidx,
                   result, runErr, attributed, modLog>>
    /\ UNCHANGED <<signalled, refsValid, modState, newModFile, out, exitCode,
                   exitErr>>
    /\ UNCHANGED <<v, flagLog>>

(* readModFiles, lines 311-314: readModFileAtRef(fromRef) *)
ReadOldMod ==
    /\ pc = "collect"
    /\ idx <= Len(changedFiles)
    /\ Base(changedFiles[idx]) = "go.mod"
    /\ LET path == changedFiles[idx]
       IN  \/ /\ signalled \/ ~ExistsAt(path, fromRef)
              /\ calls' = Append(calls, Call("show", path, fromRef, FALSE))
              /\ Fail(<<"reading", path, fromRef>>)
           \/ /\ ~signalled
              /\ ExistsAt(path, fromRef)
              /\ \/ /\ calls' = calls \o <<Call("show", path, fromRef, TRUE),
                                           Call("parse", path, fromRef, FALSE)>>
                    /\ Fail(<<"parsing mod file", path, fromRef>>)
                 \/ /\ calls' = calls \o <<Call("show", path, fromRef, TRUE),
                                           Call("parse", path, fromRef, TRUE)>>
                    /\ oldModFile' \in Requires
                    /\ pc' = "readNew"
                    /\ UNCHANGED <<pkgs, changedFiles, idx, changedPackages,
                                   changedMods, pidx, result, runErr, attributed,
                                   modLog>>
    /\ UNCHANGED <<signalled, refsValid, modState, newModFile, out, exitCode,
                   exitErr>>
    /\ UNCHANGED <<v, flagLog>>

\* as ReadNewMod, but a go.mod that is not there at toRef reads as an empty one
ReadNewModTolerant ==
    /\ pc = "readNew"
    /\ LET path == changedFiles[idx]
       IN  \/ /\ signalled
              /\ calls' = Append(calls, Call("show", path, toRef, FALSE))
              /\ Fail(<<"reading", path, toRef>>)
           \/ /\ ~signalled
              /\ calls' = calls \o <<Call("show", path, toRef, ExistsAt(path, toRef)),
                                     Call("parse", path, toRef, TRUE)>>
              /\ \E new \in IF ExistsAt(path, toRef) THEN Requires ELSE {<<>>} :
                    LET delta == getChangedMods(readModFiles(oldModFile, new))
                    IN  /\ changedMods' = delta
                        /\ modLog' = (path :> delta) @@ modLog
              /\ changedPackages' = changedPackages \cup attribute(pkgs, path)
              /\ attributed' = attributed \cup attribute(pkgs, path)
              /\ oldModFile' = Nil
              /\ idx' = idx + 1
              /\ pc' = AfterCollect(changedFiles, idx + 1)
              /\ pidx' = 1
              /\ UNCHANGED <<pkgs, changedFiles, result, runErr>>
    /\ UNCHANGED <<signalled, refsValid, modState, newModFile, out, exitCode,
                   exitErr>>
    /\ UNCHANGED <<v, flagLog>>

(* readModFiles, lines 315-320: readModFileAtRef(toRef); then getChangedMods *)
(* and the rest of the iteration of collectChanges, lines 246-267            *)
ReadNewMod ==
    /\ pc = "readNew"
    /\ LET path == changedFiles[idx]
       IN  \/ /\ signalled \/ ~ExistsAt(path, toRef)
              /\ calls' = Append(calls, Call("show", path, toRef, FALSE))
              /\ Fail(<<"reading", path, toRef>>)
           \/ /\ ~signalled
              /\ ExistsAt(path, toRef)
              /\ \/ /\ calls' = calls \o <<Call("show", path, toRef, TRUE),
                                           Call("parse", path, toRef, FALSE)>>
                    /\ Fail(<<"parsing mod file", path, toRef>>)
                 \/ /\ calls' = calls \o <<Call("show", path, toRef, TRUE),
                                           Call("parse", path, toRef, TRUE)>>
                    /\ \E new \in Requires :
                          LET delta == getChangedMods(readModFiles(oldModFile, new))
                          IN  /\ changedMods' = delta
                              /\ modLog' = (path :> delta) @@ modLog
                    /\ changedPackages' = changedPackages \cup attribute(pkgs, path)
                    /\ attributed' = attributed \cup attribute(pkgs, path)
                    /\ oldModFile' = Nil
                    /\ idx' = idx + 1
                    /\ pc' = AfterCollect(changedFiles, idx + 1)
                    /\ pidx' = 1
                    /\ UNCHANGED <<pkgs, changedFiles, result, runErr>>
    /\ UNCHANGED <<signalled, refsValid, modState, newModFile, out, exitCode,
                   exitErr>>
    /\ UNCHANGED <<v, flagLog>>

(* getChangedPackages, lines 173-182: one iteration; after the last one the *)
(* keys of changedPackages are returned                                     *)
Propagate ==
    /\ pc = "propagate"
    /\ pidx <= Len(pkgs)
    /\ \E order \in Orders(DOMAIN pkgs[pidx].Imports) :
          LET new == propagateStepIn(order, pkgs[pidx], changedMods, changedPackages)
          IN  /\ changedPackages' = new
              /\ pidx' = pidx + 1
              /\ IF pidx + 1 > Len(pkgs)
                 THEN pc' = "print" /\ result' = new
                 ELSE pc' = "propagate" /\ UNCHANGED result
    /\ UNCHANGED <<signalled, refsValid, pkgs, changedFiles, modState, idx,
                   oldModFile, newModFile, changedMods, runErr, out, exitCode,
                   exitErr, calls, attributed, modLog>>
    /\ UNCHANGED <<v, flagLog>>

(* printChangedPackages, lines 122-125: getChangedPackages has returned, its *)
(* locals are gone                                                          *)
PrintChangedPackages ==
    /\ pc = "print"
    /\ out' \in Orders(result)
    /\ pc' = "status"
    /\ pkgs' = <<>>
    /\ changedFiles' = <<>>
    /\ changedPackages' = {}
    /\ changedMods' = {}
    /\ idx' = 0
    /\ pidx' = 0
    /\ UNCHANGED <<signalled, refsValid, modState, oldModFile, newModFile, result,
                   runErr, exitCode, exitErr, calls, attributed, modLog>>
    /\ UNCHANGED <<v, flagLog>>

(* runApp, lines 47-50 *)
RunAppReturn ==
    /\ pc = "status"
    /\ IF runErr # NoErr
       THEN /\ exitCode' = getAppStatus(signalled, runErr)[1]
            /\ exitErr' = getAppStatus(signalled, runErr)[2]
       ELSE /\ exitCode' = _exitSuccess
            /\ exitErr' = NoErr
    /\ pc' = "done"
    /\ UNCHANGED <<signalled, refsValid, pkgs, changedFiles, modState, idx,
                   oldModFile, newModFile, changedPackages, changedMods, pidx,
                   result, runErr, out, calls, attributed, modLog>>
    /\ UNCHANGED <<v, flagLog>>

Next ==
    \/ Interrupt
    \/ ParseArgs
    \/ LoadLocalPackages
    \/ GetChangedFiles
    \/ CollectFile
    \/ ReadOldMod
    \/ ReadNewMod
    \/ Propagate
    \/ PrintChangedPackages
    \/ RunAppReturn

Spec == Init /\ [][Next]_vars

-----------------------------------------------------------------------------
(* getChangedMods on its own, over the manifests of both revisions *)

ModModules == Modules \cup {"m3"}

InitMods ==
    /\ pc = "mods"
    /\ oldModFile \in RequireLists(ModModules, MaxModReq)
    /\ newModFile \in RequireLists(ModModules, MaxModReq)
    /\ signalled = FALSE
    /\ refsValid = TRUE
    /\ pkgs = <<>>
    /\ changedFiles = <<>>
    /\ modState = <<>>
    /\ idx = 0
    /\ changedPackages = {}
    /\ changedMods = {}
    /\ pidx = 0
    /\ result = NoSet
    /\ runErr = NoErr
    /\ out = <<>>
    /\ exitCode = Nil
    /\ exitErr = NoErr
    /\ calls = <<>>
    /\ attributed = {}
    /\ modLog = <<>>
    /\ v = NewSlogLevelValueFlag
    /\ flagLog = <<Entry("NewSlogLevelValueFlag", <<>>, NewSlogLevelValueFlag, NoErr)>>

(* getChangedMods, lines 279-301, once both manifests are read and parsed *)
GetChangedMods ==
    /\ pc = "mods"
    /\ changedMods' = getChangedMods(readModFiles(oldModFile, newModFile))
    /\ pc' = "modsDone"
    /\ UNCHANGED <<signalled, refsValid, pkgs, changedFiles, modState, idx,
                   oldModFile, newModFile, changedPackages, pidx, result, runErr,
                   out, exitCode, exitErr, calls, attributed, modLog>>
    /\ UNCHANGED <<v, flagLog>>

NextMods == GetChangedMods

SpecMods == InitMods /\ [][NextMods]_vars

-----------------------------------------------------------------------------
(* SlogLevelValue on its own: built, then Set and Get are called on it *)

\* the arguments Set is given: the four names, the strings of
\* TestSlogLevelValue_InvalidValues, and names in another case or longer
LevelInputs ==
    Range(levelNames) \cup
    { <<>>, <<"t", "r", "a", "c", "e">>, <<"I", "n", "F", "O">>,
      <<"I", "N", "F", "O">>, <<"W", "a", "r", "n">>,
      <<"w", "a", "r", "n", "i", "n", "g">> }

InitLevel ==
    /\ pc = "flag"
    /\ \/ /\ v = NewSlogLevelValueFlag
          /\ flagLog = <<Entry("NewSlogLevelValueFlag", <<>>, v, NoErr)>>
       \/ /\ v \in {SlogLevelValue(l) :
                        l \in {LevelDebug, LevelInfo, LevelWarn, LevelError}}
          /\ flagLog = <<Entry("SlogLevelValue{}", <<>>, v, NoErr)>>
    /\ signalled = FALSE
    /\ refsValid = TRUE
    /\ pkgs = <<>>
    /\ changedFiles = <<>>
    /\ modState = <<>>
    /\ idx = 0
    /\ oldModFile = Nil
    /\ newModFile = Nil
    /\ changedPackages = {}
    /\ changedMods = {}
    /\ pidx = 0
    /\ result = NoSet
    /\ runErr = NoErr
    /\ out = <<>>
    /\ exitCode = Nil
    /\ exitErr = NoErr
    /\ calls = <<>>
    /\ attributed = {}
    /\ modLog = <<>>

(* a call of v.Set(value) *)
CallSet ==
    /\ pc = "flag"
    /\ Len(flagLog) <= MaxCalls
    /\ \E value \in LevelInputs :
          /\ v' = Set(v, value)[1]
          /\ flagLog' = Append(flagLog, Entry("Set", value, v', Set(v, value)[2]))
    /\ UNCHANGED <<pc, signalled, refsValid, pkgs, changedFiles, modState, idx,
                   oldModFile, newModFile, changedPackages, changedMods, pidx,
                   result, runErr, out, exitCode, exitErr, calls, attributed,
                   modLog>>

(* a call of v.Get() *)
CallGet ==
    /\ pc = "flag"
    /\ Len(flagLog) <= MaxCalls
    /\ flagLog' = Append(flagLog, Entry("Get", <<>>, v, Get(v)))
    /\ UNCHANGED <<pc, signalled, refsValid, pkgs, changedFiles, modState, idx,
                   oldModFile, newModFile, changedPackages, changedMods, pidx,
                   result, runErr, out, exitCode, exitErr, calls, attributed,
                   modLog, v>>

NextLevel ==
    \/ CallSet
    \/ CallGet

SpecLevel == InitLevel /\ [][NextLevel]_vars

-----------------------------------------------------------------------------
(* What the claims speak of *)

Returned == pc = "print"
Ended == pc = "done"

PkgIndex == DOMAIN pkgs
PkgPaths(I) == {pkgs[i].PkgPath : i \in I}

\* every package comes after the local packages it imports
Topological ==
    \A i \in PkgIndex : \A p \in DOMAIN pkgs[i].Imports :
        p \in PkgPaths(PkgIndex) => p \in PkgPaths(1..(i - 1))

\* the package lists the path among its Go, other or embedded files
Lists(pkg, path) ==
    Join(repoDir, path) \in pkg.GoFiles \cup pkg.OtherFiles \cup pkg.EmbedFiles

OwnsChangedFile(pkg) == \E k \in DOMAIN changedFiles : Lists(pkg, changedFiles[k])

Unowned(path) == \A i \in PkgIndex : ~Lists(pkgs[i], path)

\* the package imports a third-party package of a module of the set
ImportsModuleOf(pkg, mods) ==
    \E p \in DOMAIN pkg.Imports : p \in ExtPkgs /\ ExtModule[p] \in mods

ImportsLocalOf(pkg, set) ==
    \E p \in DOMAIN pkg.Imports : p \in PkgPaths(PkgIndex) /\ p \in set

\* what a package, local or third-party, imports
ImportsOf(p) ==
    IF p \in ExtPkgs THEN ExtImports[p]
    ELSE IF p \in StdPkgs THEN {}
    ELSE UNION {DOMAIN pkgs[i].Imports : i \in {j \in PkgIndex : pkgs[j].PkgPath = p}}

RECURSIVE Deps(_)
Deps(S) ==
    LET next == S \cup UNION {ImportsOf(p) : p \in S}
    IN  IF next = S THEN S ELSE Deps(next)

RECURSIVE LocalDeps(_)
LocalDeps(S) ==
    LET next == S \cup UNION {ImportsOf(p) \cap PkgPaths(PkgIndex) : p \in S}
    IN  IF next = S THEN S ELSE LocalDeps(next)

GoMods(files) == {k \in DOMAIN files : Base(files[k]) = "go.mod"}

FailedCalls == {i \in DOMAIN calls : ~calls[i].ok}

Wrapped(err) == <<"getting changed packages">> \o err

-----------------------------------------------------------------------------
\* C1: when getChangedPackages returns a set for a package list in which every
\* package comes after the local packages it imports, the set holds every
\* package that lists a changed file, and every package that imports a local
\* package of the set or a package of a module of the manifest delta.
C1_ImpactSetClosed ==
    (Returned /\ Topological) =>
        \A i \in PkgIndex :
            /\ OwnsChangedFile(pkgs[i]) => pkgs[i].PkgPath \in result
            /\ ImportsLocalOf(pkgs[i], result) => pkgs[i].PkgPath \in result
            /\ ImportsModuleOf(pkgs[i], changedMods) => pkgs[i].PkgPath \in result

\* C2, as claimed: every local package that depends, through local or
\* third-party packages, on a package of a module of the manifest delta is in
\* the returned set.
C2_TransitiveModules ==
    Returned =>
        \A i \in PkgIndex :
            (\E p \in Deps(DOMAIN pkgs[i].Imports) :
                p \in ExtPkgs /\ ExtModule[p] \in changedMods)
            => pkgs[i].PkgPath \in result

\* C2, amended: a package is in the returned set when it, or a local package
\* it reaches through local imports, imports a package of a module of the
\* manifest delta; a package that lists no changed file and imports only
\* third-party packages of modules outside the delta is not in the set,
\* whatever those packages import.
C2_DirectModules ==
    Returned =>
        \A i \in PkgIndex :
            /\ (\E p \in LocalDeps({pkgs[i].PkgPath}) :
                    \E j \in PkgIndex :
                        pkgs[j].PkgPath = p /\ ImportsModuleOf(pkgs[j], changedMods))
               => pkgs[i].PkgPath \in result
            /\ ( /\ ~OwnsChangedFile(pkgs[i])
                 /\ DOMAIN pkgs[i].Imports \subseteq ExtPkgs \cup StdPkgs
                 /\ ~ImportsModuleOf(pkgs[i], changedMods) )
               => pkgs[i].PkgPath \notin result

\* C2 happens: a package with no changed file is in the set through a local
\* package that imports a package of a changed module
C2_Witness ==
    /\ Returned
    /\ changedMods # {}
    /\ \E i, j \in PkgIndex :
        /\ i # j
        /\ ~OwnsChangedFile(pkgs[i])
        /\ ~OwnsChangedFile(pkgs[j])
        /\ DOMAIN pkgs[i].Imports = {pkgs[j].PkgPath} \cup StdPkgs
        /\ ImportsModuleOf(pkgs[j], changedMods)
        /\ pkgs[i].PkgPath \in result

\* the lists that hold the same paths as a list, in any order, one entry more
\* at most
SameSetLists(files) ==
    {l \in UNION {[1..n -> Range(files)] : n \in 0..(Len(files) + 1)} :
        Range(l) = Range(files)}

\* C3: two lists of changed files that hold the same paths, in another order or
\* with entries repeated, give the same set, the manifests being what they are.
C3_ListIsASet ==
    Returned =>
        \A l \in SameSetLists(changedFiles) :
            getChangedPackages(l, pkgs, modLog) = result

\* C4: getChangedMods runs once for each go.mod of the list; a module one of
\* them reports and no later one reports is in the delta the last loop uses,
\* and a package that imports a package of that module is in the set.
C4_DeltasMerged ==
    Returned =>
        /\ \A k \in GoMods(changedFiles) :
              Cardinality({i \in DOMAIN calls :
                  calls[i] = Call("show", changedFiles[k], fromRef, TRUE)}) = 1
        /\ \A k \in GoMods(changedFiles) : \A m \in modLog[changedFiles[k]] :
              (\A j \in GoMods(changedFiles) : j > k => m \notin modLog[changedFiles[j]])
              => /\ m \in changedMods
                 /\ \A i \in PkgIndex :
                       ImportsModuleOf(pkgs[i], {m}) => pkgs[i].PkgPath \in result

\* the list without its k-th entry
Without(files, k) == SubSeq(files, 1, k - 1) \o SubSeq(files, k + 1, Len(files))

\* C6, as claimed: a changed path that no package lists adds nothing: the set
\* is the one the list without the path gives, and it is empty when no path of
\* the list is listed by a package and the manifest delta is empty.
C6_UnownedPathIgnored ==
    Returned =>
        /\ \A k \in DOMAIN changedFiles :
              Unowned(changedFiles[k]) =>
                  getChangedPackages(Without(changedFiles, k), pkgs, modLog) = result
        /\ ( /\ \A k \in DOMAIN changedFiles : Unowned(changedFiles[k])
             /\ changedMods = {} )
           => result = {}

\* C6, amended: a changed path that no package lists and whose base name is not
\* go.mod adds nothing and raises no error: nothing is read for it, the set is
\* the one the list without the path gives, and the set is empty when no path
\* of the list is listed by a package and the manifest delta is empty.
C6_UnownedFileIgnored ==
    /\ \A i \in DOMAIN calls :
          calls[i].op \in {"show", "parse"} => Base(calls[i].path) = "go.mod"
    /\ (pc \in {"status", "done"} /\ runErr # NoErr /\ calls # <<>>)
          => ~calls[Len(calls)].ok
    /\ Returned =>
        /\ \A k \in DOMAIN changedFiles :
              (Unowned(changedFiles[k]) /\ Base(changedFiles[k]) # "go.mod") =>
                  getChangedPackages(Without(changedFiles, k), pkgs, modLog) = result
        /\ ( /\ \A k \in DOMAIN changedFiles : Unowned(changedFiles[k])
             /\ changedMods = {} )
           => result = {}

\* C6 happens: the list holds a path no package lists beside a path a package
\* lists, and the set is returned
C6_Witness ==
    /\ Returned
    /\ result # {}
    /\ \E k \in DOMAIN changedFiles :
          Unowned(changedFiles[k]) /\ Base(changedFiles[k]) # "go.mod"

\* C7: once an external call has failed no other call is made, no set is
\* returned and no line is written; lines are written only for a returned set,
\* after every call has succeeded; no call is made twice.
C7_NoPartialSuccess ==
    /\ \A i \in FailedCalls :
          /\ i = Len(calls)
          /\ result = NoSet
          /\ out = <<>>
          /\ runErr # NoErr
          /\ pc \in {"status", "done"}
    /\ out # <<>> =>
          /\ pc \in {"status", "done"}
          /\ FailedCalls = {}
          /\ runErr = NoErr
          /\ Range(out) = result
    /\ \A i, j \in DOMAIN calls :
          (calls[i].op = calls[j].op /\ calls[i].path = calls[j].path
             /\ calls[i].ref = calls[j].ref) => i = j

\* C7 happens: a manifest read fails after a file was attributed to a package,
\* and the run ends with nothing written
C7_Witness ==
    /\ Ended
    /\ attributed # {}
    /\ FailedCalls # {}
    /\ calls[Len(calls)].op = "show"
    /\ out = <<>>

\* C8: runApp returns 0 and no error when the run returned no error, 130 and
\* "interrupted (^C)" when the run returned an error and an interrupt was
\* received, 1 and the run's error otherwise.
C8_ExitCodes ==
    Ended =>
        /\ runErr = NoErr => (exitCode = 0 /\ exitErr = NoErr)
        /\ (runErr # NoErr /\ signalled) =>
              (exitCode = 130 /\ exitErr = <<"interrupted (^C)">>)
        /\ (runErr # NoErr /\ ~signalled) => (exitCode = 1 /\ exitErr = runErr)

\* C8 happens: the run failed on its flags and an interrupt was received
C8_Witness ==
    /\ Ended
    /\ signalled
    /\ runErr = <<"flag provided but not defined">>
    /\ exitCode = 130

\* C9: the packages are loaded first; when the loader fails, or a package it
\* loaded carries errors, the run fails with that error and no other call is
\* made, nothing is listed, read or propagated, whatever the revisions.
C9_LoadFirst ==
    /\ calls # <<>> => calls[1].op = "load"
    /\ (calls # <<>> /\ ~calls[1].ok) =>
          /\ Len(calls) = 1
          /\ pc \in {"status", "done"}
          /\ result = NoSet
          /\ changedFiles = <<>> /\ modState = <<>> /\ modLog = <<>>
          /\ attributed = {} /\ changedPackages = {}
          /\ IF calls[1].ref = "errors"
             THEN \E i \in 1..NumPkgs :
                     runErr = Wrapped(<<"failed querying package", PkgNames[i]>>)
             ELSE runErr = Wrapped(<<"failed listing local packages">>)

\* C9 happens: a loaded package carries errors and the revisions are invalid
C9_Witness ==
    /\ Ended
    /\ ~refsValid
    /\ ~signalled
    /\ calls = <<Call("load", <<>>, "errors", FALSE)>>

\* the place of a path in the order git lists paths
PathIndex(path) == CHOOSE k \in DOMAIN AllPaths : AllPaths[k] = path

MissingRefs(path) ==
    IF modState[path] = "from" THEN {toRef}
    ELSE IF modState[path] = "to" THEN {fromRef}
    ELSE {}

\* C10, as claimed: when a changed go.mod is not there at one of the two
\* revisions the run ends with the error "reading <path> at <ref>".
C10_MissingManifestReported ==
    Ended =>
        \A path \in DOMAIN modState :
            MissingRefs(path) # {} =>
                \E ref \in {fromRef, toRef} :
                    runErr = Wrapped(<<"reading", path, ref>>)

\* C10, amended: when a changed go.mod is not there at one of the two
\* revisions the run fails and no set is returned or written; the error is
\* "reading <path> at <ref>" for that go.mod, unless the run ended before, on
\* the read or the parse of an earlier go.mod or on the parse of this one at
\* fromRef.
C10_MissingManifestFails ==
    Ended =>
        \A path \in DOMAIN modState :
            MissingRefs(path) # {} =>
                /\ result = NoSet
                /\ out = <<>>
                /\ runErr # NoErr
                /\ exitCode # 0
                /\ LET last == calls[Len(calls)]
                   IN  /\ ~last.ok
                       /\ last.op \in {"show", "parse"}
                       /\ \/ /\ last.path = path
                             /\ last.op = "show"
                             /\ runErr = Wrapped(<<"reading", path, last.ref>>)
                          \/ /\ last.path = path
                             /\ last.op = "parse"
                             /\ last.ref = fromRef
                             /\ runErr = Wrapped(<<"parsing mod file", path, fromRef>>)
                          \/ /\ last.path \in DOMAIN modState
                             /\ PathIndex(last.path) < PathIndex(path)
                             /\ runErr \in {Wrapped(<<"reading", last.path, last.ref>>),
                                   Wrapped(<<"parsing mod file", last.path, last.ref>>)}

\* C10 happens: a file was attributed to a package, then a go.mod that is gone
\* at toRef could not be read there
C10_Witness ==
    /\ Ended
    /\ ~signalled
    /\ attributed # {}
    /\ \E path \in DOMAIN modState :
          /\ modState[path] = "from"
          /\ runErr = Wrapped(<<"reading", path, toRef>>)

-----------------------------------------------------------------------------
\* C5: getChangedMods returns the modules both manifests require, with
\* different versions: not a module with the same version in both, not a
\* module only the manifest at toRef requires, not one only the manifest at
\* fromRef requires.
C5_ChangedModsExact ==
    pc = "modsDone" =>
        /\ changedMods =
              {m \in ModModules :
                  \E i \in DOMAIN oldModFile, j \in DOMAIN newModFile :
                      /\ oldModFile[i].Path = m
                      /\ newModFile[j].Path = m
                      /\ oldModFile[i].Version # newModFile[j].Version}
        /\ \A m \in changedMods :
              /\ m \in {r.Path : r \in Range(oldModFile)}
              /\ m \in {r.Path : r \in Range(newModFile)}

\* C5 happens: one module changed its version, another was added
C5_Witness ==
    /\ pc = "modsDone"
    /\ changedMods # {}
    /\ \E r \in Range(newModFile) : r.Path \notin {o.Path : o \in Range(oldModFile)}

-----------------------------------------------------------------------------
\* the ways the imports of every package of the list can be ordered
ImportOrders ==
    {o \in [PkgIndex -> UNION {Orders(DOMAIN pkgs[i].Imports) : i \in PkgIndex}] :
        \A i \in PkgIndex : o[i] \in Orders(DOMAIN pkgs[i].Imports)}

\* C11: the set getChangedPackages returns is the one the package list, the
\* changed-file list and the manifest deltas give whatever the order in which
\* the imports of each package are scanned; once a step of the last loop is
\* reached, every order of the imports gives the same next set; the lines
\* written are the set, each package once, in some order.
C11_SetDeterministic ==
    /\ Returned =>
          /\ result = getChangedPackages(changedFiles, pkgs, modLog)
          /\ \A o \in ImportOrders :
                LET c == collectChanges(changedFiles, pkgs, modLog, {}, {})
                IN  propagateFromIn(o, pkgs, 1, c[2], c[1]) = result
    /\ (pc = "propagate" /\ pidx <= Len(pkgs)) =>
          \A o1, o2 \in Orders(DOMAIN pkgs[pidx].Imports) :
              propagateStepIn(o1, pkgs[pidx], changedMods, changedPackages)
                = propagateStepIn(o2, pkgs[pidx], changedMods, changedPackages)
    /\ (Ended /\ runErr = NoErr) =>
          /\ Range(out) = result
          /\ Len(out) = Cardinality(result)

\* C11 happens: a package is in the set through its imports alone, and only
\* one of the two packages it imports beside the standard library makes it so
C11_Witness ==
    /\ Returned
    /\ \E i \in PkgIndex :
          /\ pkgs[i].PkgPath \in result
          /\ pkgs[i].PkgPath \notin attributed
          /\ \E a, b \in DOMAIN pkgs[i].Imports \ StdPkgs :
                /\ a # b
                /\ a \in result \/ (a \in ExtPkgs /\ ExtModule[a] \in changedMods)
                /\ b \notin result
                /\ ~(b \in ExtPkgs /\ ExtModule[b] \in changedMods)

-----------------------------------------------------------------------------
\* the level each accepted name stands for
NamedLevel(value) ==
    IF value = <<"d", "e", "b", "u", "g">> THEN 0 - 4
    ELSE IF value = <<"i", "n", "f", "o">> THEN 0
    ELSE IF value = <<"w", "a", "r", "n">> THEN 4
    ELSE 8

AcceptedNames ==
    { <<"d", "e", "b", "u", "g">>, <<"i", "n", "f", "o">>, <<"w", "a", "r", "n">>,
      <<"e", "r", "r", "o", "r">> }

\* the text "invalid level <value>: must be one of: debug, info, warn, error"
InvalidLevel(value) ==
    <<"invalid level ">> \o value \o
    <<": must be one of: ", "d", "e", "b", "u", "g", ",", " ", "i", "n", "f", "o",
      ",", " ", "w", "a", "r", "n", ",", " ", "e", "r", "r", "o", "r">>

\* C12: Set with one of debug, info, warn, error returns no error and stores
\* the level of that name, which Get then returns; Set with any other string
\* returns the error "invalid level <value>: must be one of: debug, info,
\* warn, error" and leaves the stored level as it was; Get changes nothing
\* and, before any Set, returns the level the value was built with, which is
\* warn for NewSlogLevelValueFlag.
C12_SetAcceptsFourNames ==
    /\ v = flagLog[Len(flagLog)].val
    /\ flagLog[1].op = "NewSlogLevelValueFlag" => flagLog[1].val.Level = 4
    /\ \A k \in 2..Len(flagLog) :
          LET e == flagLog[k]
              prev == flagLog[k - 1].val
          IN  /\ (e.op = "Set" /\ e.value \in AcceptedNames) =>
                    /\ e.ret = NoErr
                    /\ e.val.Level = NamedLevel(e.value)
              /\ (e.op = "Set" /\ e.value \notin AcceptedNames) =>
                    /\ e.ret = InvalidLevel(e.value)
                    /\ e.val = prev
              /\ e.op = "Get" =>
                    /\ e.val = prev
                    /\ e.ret = prev.Level
                    /\ (\A j \in 2..(k - 1) : flagLog[j].op # "Set")
                          => e.ret = flagLog[1].val.Level
                    /\ (flagLog[k - 1].op = "Set"
                            /\ flagLog[k - 1].value \in AcceptedNames)
                          => e.ret = NamedLevel(flagLog[k - 1].value)

\* C12 happens: a name is set, then a name in another case is refused, and
\* Get returns the level of the first
C12_Witness ==
    /\ Len(flagLog) = 4
    /\ flagLog[2].op = "Set" /\ flagLog[2].value = <<"e", "r", "r", "o", "r">>
    /\ flagLog[3].op = "Set" /\ flagLog[3].value = <<"I", "n", "F", "O">>
    /\ flagLog[3].ret # NoErr
    /\ flagLog[4].op = "Get" /\ flagLog[4].ret = 8

-----------------------------------------------------------------------------
\* the positions of the packages that list a path
Listers(path) == {i \in PkgIndex : Lists(pkgs[i], path)}

\* C13: an iteration of the first loop adds at most one package for its
\* path: none when no package lists the path, else the first package of the
\* list that lists it, and no package that comes later in the list; for a
\* path that is no go.mod the iteration makes no call and raises no error.
C13_FirstMatchAttribution ==
    [][(pc \in {"collect", "readNew"} /\ idx' = idx + 1) =>
          LET path == changedFiles[idx]
              added == changedPackages' \ changedPackages
          IN  /\ Cardinality(added) <= 1
              /\ Listers(path) = {} => added = {}
              /\ Listers(path) # {} =>
                    LET first == CHOOSE i \in Listers(path) :
                                    \A j \in Listers(path) : i <= j
                    IN  /\ pkgs[first].PkgPath \in changedPackages'
                        /\ added \subseteq {pkgs[first].PkgPath}
                        /\ \A j \in Listers(path) \ {first} :
                              pkgs[j].PkgPath \in changedPackages'
                                  => pkgs[j].PkgPath \in changedPackages
              /\ Base(path) # "go.mod" =>
                    /\ calls' = calls
                    /\ runErr' = NoErr
                    /\ pc' \in {"collect", "propagate"}]_vars

\* C13 happens: two packages list a changed file and the set is returned with
\* the earlier one and without the later one
C13_Witness ==
    /\ Returned
    /\ \E k \in DOMAIN changedFiles : \E i, j \in Listers(changedFiles[k]) :
          /\ i < j
          /\ pkgs[i].PkgPath \in result
          /\ pkgs[j].PkgPath \notin result

-----------------------------------------------------------------------------
\* the package lists a changed file, or imports a local package of the set or
\* a package of a module of the delta
Justified(pkg, set, mods) ==
    \/ OwnsChangedFile(pkg)
    \/ ImportsLocalOf(pkg, set)
    \/ ImportsModuleOf(pkg, mods)

InGetChangedPackages == pc \in {"collect", "readNew", "propagate"}

\* C14: while getChangedPackages runs, and when it returns, every package of
\* the set lists a changed file, or imports a local package of the set, or
\* imports a package of a module of the manifest delta; a package that does
\* none of these is not in the returned set; and no step of getChangedPackages
\* takes a package out of the set.
C14_NoFalsePositives ==
    /\ [](InGetChangedPackages =>
            \A i \in PkgIndex :
                pkgs[i].PkgPath \in changedPackages
                    => Justified(pkgs[i], changedPackages, changedMods))
    /\ [](changedPackages \subseteq PkgPaths(PkgIndex))
    /\ [](Returned =>
            /\ result \subseteq PkgPaths(PkgIndex)
            /\ \A i \in PkgIndex :
                  pkgs[i].PkgPath \in result
                      => Justified(pkgs[i], result, changedMods))
    /\ [][(InGetChangedPackages /\ InGetChangedPackages')
            => changedPackages \subseteq changedPackages']_vars
    /\ [][(InGetChangedPackages /\ Returned')
            => changedPackages \subseteq result']_vars

\* C14 happens: a set is returned for a changed module, without a package
\* that lists no changed file and imports a local package outside the set and
\* a package of a module that did not change
C14_Witness ==
    /\ Returned
    /\ result # {}
    /\ changedMods = {"m2"}
    /\ \E i \in PkgIndex :
          /\ ~OwnsChangedFile(pkgs[i])
          /\ "x1" \in DOMAIN pkgs[i].Imports
          /\ \E q \in DOMAIN pkgs[i].Imports : q \in PkgPaths(PkgIndex)
          /\ pkgs[i].PkgPath \notin result

-----------------------------------------------------------------------------
\* the positions in calls of the calls of an operation on a path at a revision
CallsOf(op, path, ref) ==
    {k \in DOMAIN calls :
        calls[k].op = op /\ calls[k].path = path /\ calls[k].ref = ref}

\* the run is over with an error, and the call that failed is the last one
FailedAt(op, ref) ==
    /\ Ended
    /\ calls # <<>>
    /\ ~calls[Len(calls)].ok
    /\ calls[Len(calls)].op = op
    /\ calls[Len(calls)].ref = ref

\* C15, as claimed: when a go.mod cannot be read or parsed at from-ref the
\* error is "parsing mod file <path> at <from-ref>" and nothing is read for it
\* at to-ref.
C15_FromRefErrorIsParsing ==
    (FailedAt("show", fromRef) \/ FailedAt("parse", fromRef)) =>
        LET path == calls[Len(calls)].path
        IN  /\ runErr = Wrapped(<<"parsing mod file", path, fromRef>>)
            /\ CallsOf("show", path, toRef) = {}

\* C15, amended: a go.mod is read and parsed at from-ref before it is read at
\* to-ref, and a text is parsed right after it was read; when the read at
\* from-ref fails the error is "reading <path> at <from-ref>", when the parse
\* there fails it is "parsing mod file <path> at <from-ref>", and in both
\* cases nothing is read for the path at to-ref; the error names to-ref only
\* when the read and the parse at from-ref have both succeeded.
C15_FromRefFirst ==
    /\ \A k \in DOMAIN calls :
          /\ (calls[k].op = "show" /\ calls[k].ref = toRef) =>
                /\ k >= 3
                /\ calls[k - 2] = Call("show", calls[k].path, fromRef, TRUE)
                /\ calls[k - 1] = Call("parse", calls[k].path, fromRef, TRUE)
          /\ calls[k].op = "parse" =>
                /\ k >= 2
                /\ calls[k - 1] = Call("show", calls[k].path, calls[k].ref, TRUE)
    /\ FailedAt("show", fromRef) =>
          LET path == calls[Len(calls)].path
          IN  /\ runErr = Wrapped(<<"reading", path, fromRef>>)
              /\ CallsOf("show", path, toRef) = {}
              /\ CallsOf("parse", path, toRef) = {}
    /\ FailedAt("parse", fromRef) =>
          LET path == calls[Len(calls)].path
          IN  /\ runErr = Wrapped(<<"parsing mod file", path, fromRef>>)
              /\ CallsOf("show", path, toRef) = {}
              /\ CallsOf("parse", path, toRef) = {}
    /\ \A path \in GoModPaths :
          runErr \in {Wrapped(<<"reading", path, toRef>>),
                      Wrapped(<<"parsing mod file", path, toRef>>)} =>
              /\ Call("show", path, fromRef, TRUE) \in Range(calls)
              /\ Call("parse", path, fromRef, TRUE) \in Range(calls)

\* C15 happens: a go.mod that is there at both revisions does not parse at
\* from-ref, and the run ends without a read at to-ref
C15_Witness ==
    /\ FailedAt("parse", fromRef)
    /\ ~signalled
    /\ modState[calls[Len(calls)].path] = "both"
    /\ CallsOf("show", calls[Len(calls)].path, toRef) = {}

====
